---- MODULE Spec2Model ----
(***************************************************************************)
(* A model of the go-vnc client core: the VNC-password security handshake  *)
(* (security.go) and the server-to-client message decoders (server.go).    *)
(*                                                                         *)
(* Streams are byte sequences.  A call starts from pc = "idle", takes its  *)
(* inputs (the bytes the server has put on the stream, how the stream      *)
(* ends, the password, ...) from small sets, runs through the steps of    *)
(* the Go function and ends in pc = "done" with the function's return     *)
(* values in result.  TakeResult models the caller picking the result up. *)
(***************************************************************************)
EXTENDS Integers, Sequences, FiniteSets, TLC

\* ------------------------------------------------------------------ bounds
MaxRects == 3       \* rectangles per FramebufferUpdate on the wire
MaxColors == 2      \* colors per SetColorMapEntries on the wire
MaxEncs == 1        \* length of the caller-configured encoding list
MaxText == 5        \* length of a ServerCutText payload on the wire

\* --------------------------------------------------------------- constants
secTypeNone == 1
secTypeVNCAuth == 2
vncAuthChallengeSize == 16
DesBlockSize == 8
DesKeySize == 8
FramebufferUpdateMsg == 0
SetColorMapEntriesMsg == 1
BellMsg == 2
ServerCutTextMsg == 3
Raw == 0

\* ------------------------------------------------------------------ values
Nil == [kind |-> "nil"]
GoError(name) == [kind |-> "error", name |-> name, id |-> 0]
EOF == GoError("EOF")
ErrUnexpectedEOF == GoError("unexpected EOF")
ConnReset == GoError("connection reset by peer")
BrokenPipe == GoError("broken pipe")
KeySizeError == GoError("crypto/des: invalid key size")

Min(a, b) == IF a < b THEN a ELSE b
Prefix(s, k) == SubSeq(s, 1, k)
Drop(s, k) == SubSeq(s, k + 1, Len(s))

\* ------------------------------------------------------- big-endian fields
BE16(v) == << v \div 256, v % 256 >>
\* A signed 32-bit value as four bytes, two's complement, high byte first
\* (what the server puts on the wire for an encoding-type).
BE32(v) ==
    LET lo == v % 16777216
    IN  << (v \div 16777216) % 256, lo \div 65536, (lo \div 256) % 256, lo % 256 >>

\* binary.Read(..., binary.BigEndian, &uint16)
U16(b) == b[1] * 256 + b[2]
\* binary.Read(..., binary.BigEndian, &int32): two's complement
I32(b) ==
    (IF b[1] >= 128 THEN b[1] - 256 ELSE b[1]) * 16777216
        + b[2] * 65536 + b[3] * 256 + b[4]
\* binary.Read(..., binary.BigEndian, &uint32); the streams of this model keep
\* the high byte below 128, so the value stays inside TLC's integers.
U32(b) == b[1] * 16777216 + b[2] * 65536 + b[3] * 256 + b[4]
\* Mutant: the sum is computed without the 16-bit wrap.
AddU16_NoWrap(a, b) == a + b

\* uint16 addition
AddU16(a, b) == (a + b) % 65536

\* ------------------------------------------------------------------- state
VARIABLES
    phase,       \* "handshake", then "messages"; "closed" after a failed handshake
    pc,          \* position of the running call; "idle" between calls
    op,          \* the function that is running or has just returned
    arg,         \* the inputs of that call, as they were when it started
    local,       \* the local variables of the running call
    streams,     \* unread bytes: "c" is the connection's stream (c.c / conn),
                 \* "x" is any other io.Reader a caller may pass as r
    iolog,       \* every Read and Write performed on a stream by the call
    colorMap,    \* c.colorMap
    encodings,   \* what c.Encodings() returns
    result,      \* the Go return values (msg, err) of the call
    cmlog,       \* keys of colorMap assigned by the call, in order
    cm0,         \* c.colorMap as it was when the call started
    cipherFault, \* whether the block cipher rejects its key (fault injection)
    legacy,      \* the run of client_auth_vnc.go's Handshake on a second
                 \* connection that is fed the same bytes
    encMaps      \* cur: the encMap built by the running FramebufferUpdate decode;
                 \* prev: the one built by the last finished decode; each a
                 \* sequence of one map, empty while there is none

vars == << phase, pc, op, arg, local, streams, iolog, colorMap, encodings, result,
           cmlog, cm0, cipherFault, legacy, encMaps >>

\* ------------------------------------------------------------- stream I/O
IO == [s |-> streams, log |-> iolog]

\* io.ReadFull / binary.Read of n bytes from stream sid.  A stream that runs
\* out answers with arg.end: io.EOF (which ReadFull turns into
\* ErrUnexpectedEOF once some bytes were read) or a transport error.
ReadFull(io, sid, n) ==
    LET buf == io.s[sid]
        got == Min(n, Len(buf))
        ev  == [op |-> "read", on |-> sid, n |-> n, data |-> Prefix(buf, got)]
    IN  [io   |-> [s   |-> [io.s EXCEPT ![sid] = Drop(buf, got)],
                   log |-> IF n = 0 THEN io.log ELSE Append(io.log, ev)],
         data |-> Prefix(buf, got),
         err  |-> IF got = n THEN Nil
                  ELSE IF arg.end = EOF /\ got > 0 THEN ErrUnexpectedEOF
                  ELSE arg.end]

\* ClientConn.receive: binary.Read(c.c, binary.BigEndian, data)
receive(io, n) == ReadFull(io, "c", n)

\* binary.Write of data to stream sid: one Write call, which fails when the
\* transport does (arg.wfail).
WriteAll(io, sid, data) ==
    [io  |-> [s   |-> io.s,
              log |-> Append(io.log, [op |-> "write", on |-> sid,
                                      n |-> Len(data), data |-> data])],
     err |-> IF arg.wfail THEN BrokenPipe ELSE Nil]

\* Bytes a call has taken from stream sid so far.
Consumed(sid) == Len(arg.streams[sid]) - Len(streams[sid])
Reads(log) == SelectSeq(log, LAMBDA e : e.op = "read")
Writes(log) == SelectSeq(log, LAMBDA e : e.op = "write")

\* ---------------------------------------------------------- bit operations
RECURSIVE BitAnd(_, _)
BitAnd(a, b) ==
    IF a = 0 \/ b = 0 THEN 0
    ELSE (a % 2) * (b % 2) + 2 * BitAnd(a \div 2, b \div 2)
RECURSIVE BitOr(_, _)
BitOr(a, b) ==
    IF a = 0 THEN b ELSE IF b = 0 THEN a
    ELSE (IF a % 2 = 1 \/ b % 2 = 1 THEN 1 ELSE 0) + 2 * BitOr(a \div 2, b \div 2)
Shl8(x, k) == (x * 2^k) % 256     \* byte << k
Shr8(x, k) == x \div 2^k          \* byte >> k

\* Mutant: the bit pairs are moved by one place instead of two.
SwapBitsStep2_ShiftOne(x) == BitOr(Shl8(BitAnd(x, 51), 1), Shr8(BitAnd(x, 204), 1))

\* security.go encode, lines 84-86: the three swaps applied to one key byte
SwapBitsStep1(x) == BitOr(Shl8(BitAnd(x, 85), 1), Shr8(BitAnd(x, 170), 1))
SwapBitsStep2(x) == BitOr(Shl8(BitAnd(x, 51), 2), Shr8(BitAnd(x, 204), 2))
SwapBitsStep3(x) == BitOr(Shl8(BitAnd(x, 15), 4), Shr8(BitAnd(x, 240), 4))
reverseKeyByte(x) == SwapBitsStep3(SwapBitsStep2(SwapBitsStep1(x)))

\* ------------------------------------------------------------ block cipher
\* crypto/des is not part of the repository.  The model keeps what the code
\* relies on: NewCipher accepts exactly 8-byte keys, Encrypt maps one 8-byte
\* block to one 8-byte block, one-to-one for a given key, and the low
\* (parity) bit of every key byte is ignored.
NewCipher(key) ==
    IF Len(key) # DesKeySize \/ cipherFault
    THEN [cipher |-> Nil, err |-> KeySizeError]
    ELSE [cipher |-> [kind |-> "des", key |-> key], err |-> Nil]

Encrypt(cipher, src) ==
    LET f[i \in 0..DesBlockSize] ==
            IF i = 0 THEN 0
            ELSE (src[i] + (cipher.key[i] \div 2) + f[i - 1] + i) % 256
    IN  [i \in 1..DesBlockSize |-> f[i]]

\* Mutant: the bytes after the eighth are folded into the key.
KeyBytes_Fold(password) ==
    [i \in 1..DesKeySize |->
        ((IF i <= Len(password) THEN password[i] ELSE 0)
            + (IF i + DesKeySize <= Len(password) THEN password[i + DesKeySize] ELSE 0)) % 256]

\* copy(key, auth.Password) into make([]byte, 8)
KeyBytes(password) ==
    [i \in 1..DesKeySize |-> IF i <= Len(password) THEN password[i] ELSE 0]

\* security.go lines 78-87: the key handed to des.NewCipher
DeriveKey(password) ==
    [i \in 1..DesKeySize |-> reverseKeyByte(KeyBytes(password)[i])]

\* Mutant: each block is mixed with the encrypted block before it (chaining).
RECURSIVE EncryptBlocks_Chained(_, _, _)
EncryptBlocks_Chained(cipher, c, i) ==
    IF i >= vncAuthChallengeSize THEN c
    ELSE LET src == [j \in 1..DesBlockSize |->
                        IF i = 0 THEN c[j]
                        ELSE (c[i + j] + c[i + j - DesBlockSize]) % 256]
             blk == Encrypt(cipher, src)
             c2  == [j \in 1..Len(c) |->
                        IF j > i /\ j <= i + DesBlockSize THEN blk[j - i] ELSE c[j]]
         IN  EncryptBlocks_Chained(cipher, c2, i + DesBlockSize)

\* for i := 0; i < vncAuthChallengeSize; i += cipher.BlockSize() { Encrypt(c[i:i+8], c[i:i+8]) }
RECURSIVE EncryptBlocks(_, _, _)
EncryptBlocks(cipher, c, i) ==
    IF i >= vncAuthChallengeSize THEN c
    ELSE LET blk == Encrypt(cipher, SubSeq(c, i + 1, i + DesBlockSize))
             c2  == [j \in 1..Len(c) |->
                        IF j > i /\ j <= i + DesBlockSize THEN blk[j - i] ELSE c[j]]
         IN  EncryptBlocks(cipher, c2, i + DesBlockSize)

\* Mutant: only the first 8-byte block of the challenge is encrypted.
encode_FirstBlockOnly(password, c) ==
    LET key == [i \in 1..DesKeySize |-> reverseKeyByte(KeyBytes(password)[i])]
        nc  == NewCipher(key)
    IN  IF nc.err # Nil THEN [c |-> c, err |-> nc.err]
        ELSE [c |-> EncryptBlocks(nc.cipher, c, DesBlockSize), err |-> Nil]

\* ClientAuthVNC.encode: the challenge after the call and the returned error
encode(password, c) ==
    LET key == DeriveKey(password)
        nc  == NewCipher(key)
    IN  IF nc.err # Nil THEN [c |-> c, err |-> nc.err]
        ELSE [c |-> EncryptBlocks(nc.cipher, c, 0), err |-> Nil]

\* ------------------------------------------------------ encoding registry
UserEncoding(t) == [kind |-> "encoding", type |-> t, by |-> "caller"]
\* NewRawEncoding([]Color{})
NewRawEncoding == [kind |-> "encoding", type |-> Raw, by |-> "builtin"]

EmptyMap == [k \in {} |-> Nil]
MapPut(m, k, v) == [x \in DOMAIN m \cup {k} |-> IF x = k THEN v ELSE m[x]]

RECURSIVE InsertEncodings(_, _)
InsertEncodings(m, es) ==
    IF es = << >> THEN m
    ELSE InsertEncodings(MapPut(m, Head(es).type, Head(es)), Tail(es))

\* Mutant: the built-in Raw decoder is added only when the caller gave none.
BuildEncMap_KeepCallerRaw(es) ==
    LET m == InsertEncodings(EmptyMap, es)
    IN  IF Raw \in DOMAIN m THEN m ELSE MapPut(m, Raw, NewRawEncoding)

\* server.go lines 80-84
BuildEncMap(es) == MapPut(InsertEncodings(EmptyMap, es), Raw, NewRawEncoding)

\* ------------------------------------------------------------ what is sent
RECURSIVE Concat(_)
Concat(ss) == IF ss = << >> THEN << >> ELSE Head(ss) \o Concat(Tail(ss))

\* The next message's tag, which follows a complete message on the stream.
Trailer == << BellMsg >>

\* Rectangle j of an update, as the server lays it out (RFC 6143 7.6.1).
RectGeom(j) == [X |-> j, Y |-> 256 + j, Width |-> 640, Height |-> 480 + j]
RectRecord(j, id) ==
    BE16(RectGeom(j).X) \o BE16(RectGeom(j).Y) \o BE16(RectGeom(j).Width)
        \o BE16(RectGeom(j).Height) \o BE32(id)
FbuWire(ids) ==
    << 0 >> \o BE16(Len(ids)) \o Concat([j \in 1..Len(ids) |-> RectRecord(j, ids[j])])
\* Updates of up to MaxRects rectangles, all Raw but at most one.
IdSeqs ==
    { [j \in 1..n |-> IF j = k THEN -239 ELSE Raw] : n \in 0..MaxRects, k \in 0..MaxRects }
FbuWires == { FbuWire(ids) : ids \in IdSeqs }

Color(r, g, b) == [R |-> r, G |-> g, B |-> b]
\* Two palettes, which differ in their first color.
Palette(v, n) ==
    [j \in 1..n |-> IF j = 1 /\ v = 2 THEN Color(7, 8, 9)
                    ELSE IF j % 2 = 1 THEN Color(1, 2, 3) ELSE Color(4, 5, 600)]
ColorSeqs == { Palette(v, n) : v \in 1..2, n \in 0..MaxColors }
ColorRecord(c) == BE16(c.R) \o BE16(c.G) \o BE16(c.B)
ScmWire(first, cs) ==
    << 0 >> \o BE16(first) \o BE16(Len(cs)) \o Concat([j \in 1..Len(cs) |-> ColorRecord(cs[j])])
\* either palette from index 10 on, and the first one from the last index on
ScmWires ==
    { ScmWire(10, cs) : cs \in ColorSeqs }
        \cup { ScmWire(65535, Palette(1, n)) : n \in 1..MaxColors }

\* "hello", repeated as far as needed
TextOf(n) == [i \in 1..n |-> << 104, 101, 108, 108, 111 >>[((i - 1) % 5) + 1]]
\* RFC 6143 7.6.4: three bytes of padding, the length, the text
CutTextWire(text) == << 0, 0, 0 >> \o BE32(Len(text)) \o text
CutTextWires == { CutTextWire(TextOf(n)) : n \in 0..MaxText }

Challenges ==
    { [i \in 1..vncAuthChallengeSize |-> (17 * i) % 256],
      [i \in 1..vncAuthChallengeSize |-> 200 + ((i - 1) % 8)] }
Passwords ==
    { << >>, << 97 >>, << 112, 97, 115, 115, 119, 111, 114, 100 >>,
      << 112, 97, 115, 115, 119, 111, 114, 100, 49 >>,
      << 112, 97, 115, 115, 119, 111, 114, 100, 50 >> }

\* A stream either carries the whole message and then goes on, or ends early,
\* d bytes before the end of the message: cleanly (EOF), or for the first d
\* of ds with a transport error as well.
Complete(w) == [bytes |-> w \o Trailer, end |-> EOF]
InputsOf(w, ds) ==
    { Complete(w) }
        \cup { [bytes |-> Prefix(w, Len(w) - ds[k]), end |-> EOF] :
                    k \in { k \in 1..Len(ds) : ds[k] <= Len(w) } }
        \cup { [bytes |-> Prefix(w, Len(w) - ds[k]), end |-> ConnReset] :
                    k \in { k \in 1..Len(ds) : k = 1 /\ ds[k] <= Len(w) } }
Inputs(ws, ds) == UNION { InputsOf(w, ds) : w \in ws }

\* What the connection's own stream holds when the caller passes another reader.
ConnOther == FbuWire(<< Raw >>) \o Trailer

UserEncTypes == {Raw, -239}
\* Encoding lists of up to MaxEncs entries, each type at most once, in the
\* order of their type numbers.
EncLists ==
    { es \in UNION { [1..n -> { UserEncoding(t) : t \in UserEncTypes }] : n \in 0..MaxEncs } :
        \A i, j \in 1..Len(es) : i < j => es[i].type < es[j].type }

\* ------------------------------------------------------------------- Init
NoArg == [streams |-> [c |-> << >>, x |-> << >>], end |-> EOF, wfail |-> FALSE,
          password |-> << >>, r |-> "c"]
NoResult == [msg |-> Nil, err |-> Nil]
LegacyIdle == [pc |-> "idle", stream |-> << >>, iolog |-> << >>, challenge |-> << >>,
               err |-> Nil]
NoEncMaps == [prev |-> << >>, cur |-> << >>]

InitCommon ==
    /\ phase = "handshake"
    /\ pc = "idle"
    /\ op = "none"
    /\ arg = NoArg
    /\ local = Nil
    /\ streams = NoArg.streams
    /\ iolog = << >>
    /\ colorMap = EmptyMap
    /\ encodings = << >>
    /\ result = NoResult
    /\ cmlog = << >>
    /\ cm0 = EmptyMap
    /\ legacy = LegacyIdle
    /\ encMaps = NoEncMaps

Init == InitCommon /\ cipherFault = FALSE

\* ------------------------------------------------------------------ calls
Call(ph, name, start, a) ==
    /\ phase = ph
    /\ pc = "idle"
    /\ pc' = start
    /\ op' = name
    /\ arg' = a
    /\ streams' = a.streams
    /\ iolog' = << >>
    /\ cmlog' = << >>
    /\ cm0' = colorMap
    /\ local' = Nil
    /\ result' = NoResult
    /\ UNCHANGED << phase, colorMap, encodings, cipherFault, legacy, encMaps >>

\* msg.Read(c, r) with the message on the reader r that is passed in: the
\* connection's own stream, or (for a complete message) another reader
DecodeArg(in, sel) ==
    [streams |-> IF sel = "c" THEN [c |-> in.bytes, x |-> << >>]
                 ELSE [c |-> ConnOther, x |-> in.bytes],
     end |-> in.end, wfail |-> FALSE, password |-> << >>, r |-> sel]
DecodeArgs(ws, ds) ==
    { DecodeArg(in, "c") : in \in Inputs(ws, ds) }
        \cup { DecodeArg(Complete(w), "x") : w \in ws }

\* return msg, err
Return(io, msg, err) ==
    /\ pc' = "done"
    /\ result' = [msg |-> msg, err |-> err]
    /\ streams' = io.s
    /\ iolog' = io.log
    /\ local' = Nil

\* The caller picks the result up; the connection goes on.
TakeResult ==
    /\ pc = "done"
    /\ pc' = "idle"
    /\ op' = "none"
    /\ arg' = NoArg
    /\ streams' = NoArg.streams
    /\ iolog' = << >>
    /\ cmlog' = << >>
    /\ cm0' = EmptyMap
    /\ result' = NoResult
    /\ phase' = IF phase # "handshake" THEN phase
                 ELSE IF result.err = Nil THEN "messages" ELSE "closed"
    /\ legacy' = LegacyIdle
    /\ encMaps' = IF encMaps.cur = << >> THEN encMaps
                   ELSE [prev |-> encMaps.cur, cur |-> << >>]
    /\ UNCHANGED << local, colorMap, encodings, cipherFault >>

\* The caller reconfigures the encodings between messages.
SetEncodings ==
    /\ phase = "messages"
    /\ pc = "idle"
    /\ \E es \in EncLists : encodings' = es /\ es # encodings
    /\ UNCHANGED << phase, pc, op, arg, local, streams, iolog, colorMap, result,
                    cmlog, cm0, cipherFault, legacy, encMaps >>

\* ------------------------------------------------- FramebufferUpdate.Read
ZeroRect == [X |-> 0, Y |-> 0, Width |-> 0, Height |-> 0, Enc |-> Nil]
UnsupportedEncoding(id) ==
    [kind |-> "error", name |-> "unsupported encoding type", id |-> id]
\* server.go lines 62-68
NewFramebufferUpdate(rects) ==
    [kind |-> "FramebufferUpdate", Msg |-> FramebufferUpdateMsg,
     NumRect |-> Len(rects) % 65536, Rects |-> rects]
\* Mutant: the Y field is taken from the bytes of the X field.
RectangleMessage_WrongOffset(b) ==
    [X |-> U16(SubSeq(b, 1, 2)), Y |-> U16(SubSeq(b, 1, 2)),
     Width |-> U16(SubSeq(b, 5, 6)), Height |-> U16(SubSeq(b, 7, 8)),
     Encoding |-> I32(SubSeq(b, 9, 12))]

\* binary.Read into a RectangleMessage
RectangleMessage(b) ==
    [X |-> U16(SubSeq(b, 1, 2)), Y |-> U16(SubSeq(b, 3, 4)),
     Width |-> U16(SubSeq(b, 5, 6)), Height |-> U16(SubSeq(b, 7, 8)),
     Encoding |-> I32(SubSeq(b, 9, 12))]

CallFramebufferUpdate ==
    \E a \in DecodeArgs(FbuWires, << 1, 12 >>) : Call("messages", "FramebufferUpdate", "fbu_start", a)

\* Mutant: the registry of the previous decode is kept and used again.
FbuStart_CachedRegistry ==
    /\ pc = "fbu_start"
    /\ LET encMap == IF encMaps.prev # << >> THEN encMaps.prev[1]
                     ELSE BuildEncMap(encodings)
           pad    == receive(IO, 1)
           num    == receive(pad.io, 2)
       IN  /\ IF pad.err # Nil THEN Return(pad.io, Nil, pad.err)
              ELSE IF num.err # Nil THEN Return(num.io, Nil, num.err)
              ELSE /\ pc' = "fbu_loop"
                   /\ local' = [encMap |-> encMap, numRects |-> U16(num.data), i |-> 0,
                                rects |-> [j \in 1..U16(num.data) |-> ZeroRect]]
                   /\ streams' = num.io.s
                   /\ iolog' = num.io.log
                   /\ UNCHANGED result
           /\ encMaps' = [encMaps EXCEPT !.cur = << encMap >>]
    /\ UNCHANGED << phase, op, arg, colorMap, encodings, cmlog, cm0, cipherFault, legacy >>

\* server.go lines 79-95
FbuStart ==
    /\ pc = "fbu_start"
    /\ LET encMap == BuildEncMap(encodings)
           pad    == receive(IO, 1)
           num    == receive(pad.io, 2)
       IN  /\ IF pad.err # Nil THEN Return(pad.io, Nil, pad.err)
              ELSE IF num.err # Nil THEN Return(num.io, Nil, num.err)
              ELSE /\ pc' = "fbu_loop"
                   /\ local' = [encMap |-> encMap, numRects |-> U16(num.data), i |-> 0,
                                rects |-> [j \in 1..U16(num.data) |-> ZeroRect]]
                   /\ streams' = num.io.s
                   /\ iolog' = num.io.log
                   /\ UNCHANGED result
           /\ encMaps' = [encMaps EXCEPT !.cur = << encMap >>]
    /\ UNCHANGED << phase, op, arg, colorMap, encodings, cmlog, cm0, cipherFault, legacy >>

\* Mutant: on an unknown encoding the rectangles decoded so far are returned
\* together with the error.
FbuRect_PartialMessage ==
    /\ pc = "fbu_loop"
    /\ local.i < local.numRects
    /\ LET rd  == receive(IO, 12)
           msg == RectangleMessage(rd.data)
       IN  IF rd.err # Nil THEN Return(rd.io, Nil, rd.err)
           ELSE IF msg.Encoding \notin DOMAIN local.encMap
                THEN Return(rd.io, NewFramebufferUpdate(SubSeq(local.rects, 1, local.i)),
                            UnsupportedEncoding(msg.Encoding))
           ELSE /\ local' = [local EXCEPT
                                !.rects[local.i + 1] =
                                    [X |-> msg.X, Y |-> msg.Y, Width |-> msg.Width,
                                     Height |-> msg.Height,
                                     Enc |-> local.encMap[msg.Encoding]],
                                !.i = local.i + 1]
                /\ streams' = rd.io.s
                /\ iolog' = rd.io.log
                /\ UNCHANGED << pc, result >>
    /\ UNCHANGED << phase, op, arg, colorMap, encodings, cmlog, cm0, cipherFault, legacy, encMaps >>

\* server.go lines 96-112, one iteration
FbuRect ==
    /\ pc = "fbu_loop"
    /\ local.i < local.numRects
    /\ LET rd  == receive(IO, 12)
           msg == RectangleMessage(rd.data)
       IN  IF rd.err # Nil THEN Return(rd.io, Nil, rd.err)
           ELSE IF msg.Encoding \notin DOMAIN local.encMap
                THEN Return(rd.io, Nil, UnsupportedEncoding(msg.Encoding))
           ELSE /\ local' = [local EXCEPT
                                !.rects[local.i + 1] =
                                    [X |-> msg.X, Y |-> msg.Y, Width |-> msg.Width,
                                     Height |-> msg.Height,
                                     Enc |-> local.encMap[msg.Encoding]],
                                !.i = local.i + 1]
                /\ streams' = rd.io.s
                /\ iolog' = rd.io.log
                /\ UNCHANGED << pc, result >>
    /\ UNCHANGED << phase, op, arg, colorMap, encodings, cmlog, cm0, cipherFault, legacy, encMaps >>

\* Mutant: a finished update resets the color map.
FbuReturn_ResetsColorMap ==
    /\ pc = "fbu_loop"
    /\ local.i >= local.numRects
    /\ Return(IO, NewFramebufferUpdate(local.rects), Nil)
    /\ colorMap' = EmptyMap
    /\ UNCHANGED << phase, op, arg, encodings, cmlog, cm0, cipherFault, legacy, encMaps >>

\* server.go line 114
FbuReturn ==
    /\ pc = "fbu_loop"
    /\ local.i >= local.numRects
    /\ Return(IO, NewFramebufferUpdate(local.rects), Nil)
    /\ UNCHANGED << phase, op, arg, colorMap, encodings, cmlog, cm0, cipherFault, legacy, encMaps >>

\* ------------------------------------------------ SetColorMapEntries.Read
ZeroColor == Color(0, 0, 0)

CallSetColorMapEntries ==
    \E a \in DecodeArgs(ScmWires, << 4, 6 >>) : Call("messages", "SetColorMapEntries", "scm_start", a)

\* server.go lines 143-159
ScmStart ==
    /\ pc = "scm_start"
    /\ LET pad   == ReadFull(IO, arg.r, 1)
           first == ReadFull(pad.io, arg.r, 2)
           num   == ReadFull(first.io, arg.r, 2)
       IN  IF pad.err # Nil THEN Return(pad.io, Nil, pad.err)
           ELSE IF first.err # Nil THEN Return(first.io, Nil, first.err)
           ELSE IF num.err # Nil THEN Return(num.io, Nil, num.err)
           ELSE /\ pc' = "scm_loop"
                /\ local' = [FirstColor |-> U16(first.data), numColors |-> U16(num.data),
                             i |-> 0,
                             Colors |-> [j \in 1..U16(num.data) |-> ZeroColor]]
                /\ streams' = num.io.s
                /\ iolog' = num.io.log
                /\ UNCHANGED result
    /\ UNCHANGED << phase, op, arg, colorMap, encodings, cmlog, cm0, cipherFault, legacy, encMaps >>

\* Mutant: every color of the message is stored at the first index.
ColorMapKey_NoOffset(first, i) == first

\* server.go line 176: c.colorMap[result.FirstColor+i] = *color
ColorMapKey(first, i) == AddU16(first, i)

\* Mutant: a color whose read fails after its red field is stored all the same.
ScmColor_StorePartial ==
    /\ pc = "scm_loop"
    /\ local.i < local.numColors
    /\ LET r == ReadFull(IO, arg.r, 2)
           g == ReadFull(r.io, arg.r, 2)
           b == ReadFull(g.io, arg.r, 2)
           color == Color(U16(r.data), U16(g.data), U16(b.data))
           key == ColorMapKey(local.FirstColor, local.i)
       IN  IF r.err # Nil THEN Return(r.io, Nil, r.err) /\ UNCHANGED << colorMap, cmlog >>
           ELSE IF g.err # Nil
                THEN /\ Return(g.io, Nil, g.err)
                     /\ colorMap' = MapPut(colorMap, key, Color(U16(r.data), 0, 0))
                     /\ cmlog' = Append(cmlog, key)
           ELSE IF b.err # Nil THEN Return(b.io, Nil, b.err) /\ UNCHANGED << colorMap, cmlog >>
           ELSE /\ local' = [local EXCEPT !.Colors[local.i + 1] = color,
                                          !.i = local.i + 1]
                /\ colorMap' = MapPut(colorMap, key, color)
                /\ cmlog' = Append(cmlog, key)
                /\ streams' = b.io.s
                /\ iolog' = b.io.log
                /\ UNCHANGED << pc, result >>
    /\ UNCHANGED << phase, op, arg, encodings, cm0, cipherFault, legacy, encMaps >>

\* server.go lines 160-177, one iteration
ScmColor ==
    /\ pc = "scm_loop"
    /\ local.i < local.numColors
    /\ LET r == ReadFull(IO, arg.r, 2)
           g == ReadFull(r.io, arg.r, 2)
           b == ReadFull(g.io, arg.r, 2)
           color == Color(U16(r.data), U16(g.data), U16(b.data))
           key == ColorMapKey(local.FirstColor, local.i)
       IN  IF r.err # Nil THEN Return(r.io, Nil, r.err) /\ UNCHANGED << colorMap, cmlog >>
           ELSE IF g.err # Nil THEN Return(g.io, Nil, g.err) /\ UNCHANGED << colorMap, cmlog >>
           ELSE IF b.err # Nil THEN Return(b.io, Nil, b.err) /\ UNCHANGED << colorMap, cmlog >>
           ELSE /\ local' = [local EXCEPT !.Colors[local.i + 1] = color,
                                          !.i = local.i + 1]
                /\ colorMap' = MapPut(colorMap, key, color)
                /\ cmlog' = Append(cmlog, key)
                /\ streams' = b.io.s
                /\ iolog' = b.io.log
                /\ UNCHANGED << pc, result >>
    /\ UNCHANGED << phase, op, arg, encodings, cm0, cipherFault, legacy, encMaps >>

\* server.go line 179
ScmReturn ==
    /\ pc = "scm_loop"
    /\ local.i >= local.numColors
    /\ Return(IO, [kind |-> "SetColorMapEntries", FirstColor |-> local.FirstColor,
                   Colors |-> local.Colors], Nil)
    /\ UNCHANGED << phase, op, arg, colorMap, encodings, cmlog, cm0, cipherFault, legacy, encMaps >>

\* ------------------------------------------------------------- Bell.Read
\* A Bell has no bytes after its tag: the reader holds the next message, or
\* nothing at all (it ended, or the transport broke).
CallBell ==
    \E a \in DecodeArgs({ << >> }, << 0 >>) : Call("messages", "Bell", "bell", a)

\* Mutant: Bell reads a padding byte, as the other decoders do.
BellRead_ReadsPadding ==
    /\ pc = "bell"
    /\ LET padding == ReadFull(IO, arg.r, 1)
       IN  IF padding.err # Nil THEN Return(padding.io, Nil, padding.err)
           ELSE Return(padding.io, [kind |-> "Bell"], Nil)
    /\ UNCHANGED << phase, op, arg, colorMap, encodings, cmlog, cm0, cipherFault, legacy, encMaps >>

\* server.go lines 191-197
BellRead ==
    /\ pc = "bell"
    /\ Return(IO, [kind |-> "Bell"], Nil)
    /\ UNCHANGED << phase, op, arg, colorMap, encodings, cmlog, cm0, cipherFault, legacy, encMaps >>

\* ----------------------------------------------------- ServerCutText.Read
CallServerCutText ==
    \E a \in DecodeArgs(CutTextWires, << 1, 4 >>) : Call("messages", "ServerCutText", "cuttext", a)

\* server.go lines 215-231
CutTextRead ==
    /\ pc = "cuttext"
    /\ LET padding == ReadFull(IO, arg.r, 1)
           len     == ReadFull(padding.io, arg.r, 4)
           text    == ReadFull(len.io, arg.r, U32(len.data))
       IN  IF padding.err # Nil THEN Return(padding.io, Nil, padding.err)
           ELSE IF len.err # Nil THEN Return(len.io, Nil, len.err)
           ELSE IF text.err # Nil THEN Return(text.io, Nil, text.err)
           ELSE Return(text.io, [kind |-> "ServerCutText", Text |-> text.data], Nil)
    /\ UNCHANGED << phase, op, arg, colorMap, encodings, cmlog, cm0, cipherFault, legacy, encMaps >>

\* ------------------------------------------------ ClientAuthNone.Handshake
HandshakeArg(in, password, wfail) ==
    [streams |-> [c |-> in.bytes, x |-> << >>], end |-> in.end, wfail |-> wfail,
     password |-> password, r |-> "c"]

CallNoneHandshake ==
    \E in \in Inputs(Challenges, << 1, 16 >>) :
        Call("handshake", "ClientAuthNone.Handshake", "none_hs", HandshakeArg(in, << >>, FALSE))

\* Mutant: the "none" handshake waits for a challenge like the VNC one.
NoneHandshake_ReadsChallenge ==
    /\ pc = "none_hs"
    /\ LET rd == ReadFull(IO, "c", vncAuthChallengeSize)
       IN  Return(rd.io, Nil, rd.err)
    /\ UNCHANGED << phase, op, arg, colorMap, encodings, cmlog, cm0, cipherFault, legacy, encMaps >>

\* security.go lines 38-40
NoneHandshake ==
    /\ pc = "none_hs"
    /\ Return(IO, Nil, Nil)
    /\ UNCHANGED << phase, op, arg, colorMap, encodings, cmlog, cm0, cipherFault, legacy, encMaps >>

\* ------------------------------------------------- ClientAuthVNC.Handshake
NoPasswordError ==
    GoError("securityHandshake: handshake failed; no password provided for VNCAuth.")

CallVNCHandshake ==
    \E in \in Inputs(Challenges, << 1, 16 >>), pw \in Passwords, wfail \in BOOLEAN :
        Call("handshake", "ClientAuthVNC.Handshake", "hs_check", HandshakeArg(in, pw, wfail))

\* Mutant: the password is not checked before the challenge is read.
HsCheckPassword_Unchecked ==
    /\ pc = "hs_check"
    /\ pc' = "hs_read"
    /\ UNCHANGED << phase, op, arg, local, streams, iolog, colorMap, encodings, result,
                    cmlog, cm0, cipherFault, legacy, encMaps >>

\* security.go lines 56-58
HsCheckPassword ==
    /\ pc = "hs_check"
    /\ IF arg.password = << >>
       THEN Return(IO, Nil, NoPasswordError)
       ELSE pc' = "hs_read" /\ UNCHANGED << result, streams, iolog, local >>
    /\ UNCHANGED << phase, op, arg, colorMap, encodings, cmlog, cm0, cipherFault, legacy, encMaps >>

\* security.go lines 60-64
HsReadChallenge ==
    /\ pc = "hs_read"
    /\ LET rd == ReadFull(IO, "c", vncAuthChallengeSize)
       IN  IF rd.err # Nil THEN Return(rd.io, Nil, rd.err)
           ELSE /\ pc' = "hs_encode"
                /\ local' = [challenge |-> rd.data]
                /\ streams' = rd.io.s
                /\ iolog' = rd.io.log
                /\ UNCHANGED result
    /\ UNCHANGED << phase, op, arg, colorMap, encodings, cmlog, cm0, cipherFault, legacy, encMaps >>

\* security.go line 66: auth.encode(&challenge); the returned error is dropped
HsEncode ==
    /\ pc = "hs_encode"
    /\ pc' = "hs_write"
    /\ local' = [challenge |-> encode(arg.password, local.challenge).c]
    /\ UNCHANGED << phase, op, arg, streams, iolog, colorMap, encodings, result,
                    cmlog, cm0, cipherFault, legacy, encMaps >>

\* Mutant: a failed write is tried once more and its error is dropped.
HsWriteResponse_Retry ==
    /\ pc = "hs_write"
    /\ LET wr  == WriteAll(IO, "c", local.challenge)
           wr2 == WriteAll(wr.io, "c", local.challenge)
       IN  IF wr.err # Nil THEN Return(wr2.io, Nil, Nil) ELSE Return(wr.io, Nil, Nil)
    /\ UNCHANGED << phase, op, arg, colorMap, encodings, cmlog, cm0, cipherFault, legacy, encMaps >>

\* security.go lines 68-73
HsWriteResponse ==
    /\ pc = "hs_write"
    /\ LET wr == WriteAll(IO, "c", local.challenge)
       IN  Return(wr.io, Nil, wr.err)
    /\ UNCHANGED << phase, op, arg, colorMap, encodings, cmlog, cm0, cipherFault, legacy, encMaps >>

\* ------------------------------- ClientAuthVNC.Handshake, client_auth_vnc.go
\* Mutant: the two nibbles are not swapped.
reverse_TwoSteps(x) ==
    LET x1 == BitOr(Shl8(BitAnd(x, 85), 1), Shr8(BitAnd(x, 170), 1))
    IN  BitOr(Shl8(BitAnd(x1, 51), 2), Shr8(BitAnd(x1, 204), 2))

\* client_auth_vnc.go lines 54-59
reverse(x) ==
    LET x1 == BitOr(Shl8(BitAnd(x, 85), 1), Shr8(BitAnd(x, 170), 1))
        x2 == BitOr(Shl8(BitAnd(x1, 51), 2), Shr8(BitAnd(x1, 204), 2))
    IN  BitOr(Shl8(BitAnd(x2, 15), 4), Shr8(BitAnd(x2, 240), 4))

\* client_auth_vnc.go lines 25-33
LegacyKey(password) ==
    [i \in 1..8 |-> reverse([j \in 1..8 |-> IF j <= Len(password) THEN password[j] ELSE 0][i])]

\* client_auth_vnc.go lines 39-43: the low 8 bytes, then the high 8 bytes
LegacyEncryptChallenge(cipher, challenge) ==
    LET challengeLow  == SubSeq(challenge, 1, 8)
        challengeHigh == SubSeq(challenge, 9, 16)
    IN  Encrypt(cipher, challengeLow) \o Encrypt(cipher, challengeHigh)

LegacyIO == [s |-> [c |-> legacy.stream, x |-> << >>], log |-> legacy.iolog]
LegacyReturn(io, err) ==
    legacy' = [pc |-> "done", stream |-> io.s["c"], iolog |-> io.log,
               challenge |-> << >>, err |-> err]

\* The other implementation is given the password and the bytes of the
\* running (or just finished) ClientAuthVNC.Handshake call.
CallLegacyHandshake ==
    /\ op = "ClientAuthVNC.Handshake"
    /\ pc # "idle"
    /\ legacy.pc = "idle"
    /\ legacy' = [LegacyIdle EXCEPT !.pc = "read", !.stream = arg.streams["c"]]
    /\ UNCHANGED << phase, pc, op, arg, local, streams, iolog, colorMap, encodings,
                    result, cmlog, cm0, cipherFault, encMaps >>

\* client_auth_vnc.go lines 19-23
LegacyReadChallenge ==
    /\ legacy.pc = "read"
    /\ LET rd == ReadFull(LegacyIO, "c", 16)
       IN  IF rd.err # Nil THEN LegacyReturn(rd.io, rd.err)
           ELSE legacy' = [legacy EXCEPT !.pc = "encrypt", !.stream = rd.io.s["c"],
                                         !.iolog = rd.io.log, !.challenge = rd.data]
    /\ UNCHANGED << phase, pc, op, arg, local, streams, iolog, colorMap, encodings,
                    result, cmlog, cm0, cipherFault, encMaps >>

\* client_auth_vnc.go lines 25-43
LegacyEncrypt ==
    /\ legacy.pc = "encrypt"
    /\ LET nc == NewCipher(LegacyKey(arg.password))
       IN  IF nc.err # Nil THEN LegacyReturn(LegacyIO, nc.err)
           ELSE legacy' = [legacy EXCEPT
                              !.pc = "write",
                              !.challenge = LegacyEncryptChallenge(nc.cipher, legacy.challenge)]
    /\ UNCHANGED << phase, pc, op, arg, local, streams, iolog, colorMap, encodings,
                    result, cmlog, cm0, cipherFault, encMaps >>

\* client_auth_vnc.go lines 45-51
LegacyWriteResponse ==
    /\ legacy.pc = "write"
    /\ LET wr == WriteAll(LegacyIO, "c", legacy.challenge)
       IN  LegacyReturn(wr.io, wr.err)
    /\ UNCHANGED << phase, pc, op, arg, local, streams, iolog, colorMap, encodings,
                    result, cmlog, cm0, cipherFault, encMaps >>

\* ------------------------------------------------------------------- Next
Next ==
    \/ CallFramebufferUpdate
    \/ FbuStart
    \/ FbuRect
    \/ FbuReturn
    \/ CallSetColorMapEntries
    \/ ScmStart
    \/ ScmColor
    \/ ScmReturn
    \/ CallBell
    \/ BellRead
    \/ CallServerCutText
    \/ CutTextRead
    \/ CallNoneHandshake
    \/ NoneHandshake
    \/ CallVNCHandshake
    \/ HsCheckPassword
    \/ HsReadChallenge
    \/ HsEncode
    \/ HsWriteResponse
    \/ CallLegacyHandshake
    \/ LegacyReadChallenge
    \/ LegacyEncrypt
    \/ LegacyWriteResponse
    \/ SetEncodings
    \/ TakeResult

Spec == Init /\ [][Next]_vars

\* The same program with a block cipher that may reject its key.
InitCipherFault == InitCommon /\ cipherFault \in BOOLEAN
SpecCipherFault == InitCipherFault /\ [][Next]_vars

\* ------------------------------------------- the functions of the handshake
\* A state in which only the function named op runs, on the inputs a and l.
PureInit(name, start, a, l) ==
    /\ phase = "handshake"
    /\ pc = start
    /\ op = name
    /\ arg = a
    /\ local = l
    /\ streams = NoArg.streams
    /\ iolog = << >>
    /\ colorMap = EmptyMap
    /\ encodings = << >>
    /\ result = NoResult
    /\ cmlog = << >>
    /\ cm0 = EmptyMap
    /\ cipherFault = FALSE
    /\ legacy = LegacyIdle
    /\ encMaps = NoEncMaps

\* Every byte value, to be reversed by the loop body of encode (key) and by
\* reverse of client_auth_vnc.go (rev).
InitReverse ==
    \E x \in 0..255 :
        PureInit("reverse", "rev", NoArg, [x |-> x, key |-> x, rev |-> x, n |-> 0])

\* security.go lines 84-86 and client_auth_vnc.go lines 54-59, applied once more
ReverseByte ==
    /\ pc = "rev"
    /\ local.n < 2
    /\ local' = [local EXCEPT !.key = reverseKeyByte(local.key),
                              !.rev = reverse(local.rev),
                              !.n = local.n + 1]
    /\ UNCHANGED << phase, pc, op, arg, streams, iolog, colorMap, encodings, result,
                    cmlog, cm0, cipherFault, legacy, encMaps >>

SpecReverse == InitReverse /\ [][ReverseByte]_vars

\* Passwords of every length up to 16, among them some that agree on their
\* first eight bytes, and some with bytes outside ASCII.
KeyPasswords ==
    { << >>, << 97 >>, << 255, 128, 1 >>,
      << 115, 101, 99, 114, 101, 116, 33 >>,
      << 112, 97, 115, 115, 119, 111, 114, 100 >>,
      << 112, 97, 115, 115, 119, 111, 114, 101 >>,
      << 112, 97, 115, 115, 119, 111, 114, 100, 49 >>,
      << 112, 97, 115, 115, 119, 111, 114, 100, 50 >>,
      << 112, 97, 115, 115, 119, 111, 114, 100, 49, 50 >>,
      << 112, 97, 115, 115, 119, 111, 114, 100, 112, 97, 115, 115, 119, 111, 114, 100 >> }

\* Challenges that share one half with another, one of them with equal halves.
EncChallenges ==
    LET a == [i \in 1..vncAuthChallengeSize |-> (17 * i) % 256]
        b == [i \in 1..vncAuthChallengeSize |-> 200 + ((i - 1) % 8)]
    IN  { a, b, SubSeq(a, 1, 8) \o SubSeq(b, 9, 16), SubSeq(b, 1, 8) \o SubSeq(a, 9, 16) }

InitEncode ==
    \E pw \in KeyPasswords, ch \in EncChallenges :
        PureInit("ClientAuthVNC.encode", "enc_call", [NoArg EXCEPT !.password = pw],
                 [c0 |-> ch, c |-> ch, key |-> << >>, err |-> Nil, legacy |-> << >>])

\* security.go lines 78-87
EncodeDeriveKey ==
    /\ pc = "enc_call"
    /\ pc' = "enc_key"
    /\ local' = [local EXCEPT !.key = DeriveKey(arg.password)]
    /\ UNCHANGED << phase, op, arg, streams, iolog, colorMap, encodings, result,
                    cmlog, cm0, cipherFault, legacy, encMaps >>

\* security.go lines 76-99 on the challenge c; client_auth_vnc.go lines 25-43
\* on the same challenge
EncodeEncrypt ==
    /\ pc = "enc_key"
    /\ pc' = "enc_done"
    /\ LET e  == encode(arg.password, local.c)
           nc == NewCipher(LegacyKey(arg.password))
       IN  local' = [local EXCEPT !.c = e.c, !.err = e.err,
                                  !.legacy = LegacyEncryptChallenge(nc.cipher, local.c0)]
    /\ UNCHANGED << phase, op, arg, streams, iolog, colorMap, encodings, result,
                    cmlog, cm0, cipherFault, legacy, encMaps >>

NextEncode == EncodeDeriveKey \/ EncodeEncrypt
SpecEncode == InitEncode /\ [][NextEncode]_vars

\* =================================================================== claims
Done(name) == pc = "done" /\ op = name
Unsupported(e) == e # Nil /\ e.name = "unsupported encoding type"
StartsWith(s, w) == Len(s) >= Len(w) /\ Prefix(s, Len(w)) = w
\* The stream the message was put on for this call.
Wire == arg.streams[arg.r]

\* C1: decoding a ServerCutText whose length field is L consumes 3 padding
\* bytes, the 4-byte length and L payload bytes, and the message's text is
\* exactly those L bytes.
C1_CutTextLayout ==
    Done("ServerCutText") => \A n \in 0..MaxText :
        StartsWith(Wire, CutTextWire(TextOf(n)))
            => /\ result.err = Nil
               /\ result.msg = [kind |-> "ServerCutText", Text |-> TextOf(n)]
               /\ Consumed(arg.r) = 3 + 4 + n

\* C2: with an empty password the handshake returns the missing-password
\* error and has neither read from nor written to the stream.
C2_EmptyPasswordNoIO ==
    (Done("ClientAuthVNC.Handshake") /\ arg.password = << >>)
        => /\ result.err = NoPasswordError
           /\ iolog = << >>
           /\ streams = arg.streams

C2_Witness ==
    /\ Done("ClientAuthVNC.Handshake")
    /\ arg.password = << >>
    /\ Len(arg.streams["c"]) >= vncAuthChallengeSize

\* Bit k of a byte moved to bit 7-k.
MirrorBits(b) ==
    LET bit(k) == (b \div 2^k) % 2
    IN  128 * bit(0) + 64 * bit(1) + 32 * bit(2) + 16 * bit(3)
            + 8 * bit(4) + 4 * bit(5) + 2 * bit(6) + bit(7)
ExpectedKey(password) ==
    [i \in 1..8 |-> MirrorBits(IF i <= Len(password) THEN password[i] ELSE 0)]
ExpectedResponse(password, challenge) ==
    LET cipher == [kind |-> "des", key |-> ExpectedKey(password)]
    IN  Encrypt(cipher, SubSeq(challenge, 1, 8)) \o Encrypt(cipher, SubSeq(challenge, 9, 16))

\* C3: a successful handshake with a non-empty password performs exactly one
\* read, of the 16 challenge bytes, and after it exactly one write, of the 16
\* bytes of the challenge encrypted under the key derived from the password;
\* no write ever comes before the complete read.
C3_ChallengeResponse ==
    (op = "ClientAuthVNC.Handshake" /\ arg.password # << >>)
        => LET challenge == Prefix(arg.streams["c"], vncAuthChallengeSize)
               rd == [op |-> "read", on |-> "c", n |-> 16, data |-> challenge]
               wr == [op |-> "write", on |-> "c", n |-> 16,
                      data |-> ExpectedResponse(arg.password, challenge)]
           IN  /\ Writes(iolog) # << >> => (Len(challenge) = 16 /\ iolog = << rd, wr >>)
               /\ (pc = "done" /\ result.err = Nil)
                    => /\ iolog = << rd, wr >>
                       /\ Consumed("c") = 16

C3_Witness ==
    /\ Done("ClientAuthVNC.Handshake")
    /\ result.err = Nil
    /\ Len(arg.password) > 8
    /\ Len(Writes(iolog)) = 1
    /\ Writes(iolog)[1].data # Prefix(arg.streams["c"], vncAuthChallengeSize)

\* C4: when the block cipher rejects the derived key, the handshake returns
\* that error and writes nothing to the stream.
C4_CipherErrorSurfaced ==
    (Done("ClientAuthVNC.Handshake") /\ arg.password # << >>
        /\ Len(arg.streams["c"]) >= vncAuthChallengeSize
        /\ NewCipher(ExpectedKey(arg.password)).err # Nil)
        => /\ result.err = NewCipher(ExpectedKey(arg.password)).err
           /\ Writes(iolog) = << >>

\* An encoding-type the registry must know: Raw, or one the caller configured.
Configured(id) == id = Raw \/ \E k \in 1..Len(encodings) : encodings[k].type = id
\* Index of the first rectangle whose encoding-type is not configured, or 0.
FirstUnknown(ids) ==
    IF \A j \in 1..Len(ids) : Configured(ids[j]) THEN 0
    ELSE CHOOSE j \in 1..Len(ids) :
            /\ ~Configured(ids[j])
            /\ \A k \in 1..(j - 1) : Configured(ids[k])

\* C5: a FramebufferUpdate with N rectangles whose encoding-types all resolve
\* decodes to N rectangles, in wire order, with the x, y, width and height of
\* their records, and takes exactly 3 + 12*N bytes from the stream.
C5_FramebufferUpdateDecoded ==
    Done("FramebufferUpdate") => \A ids \in IdSeqs :
        (StartsWith(arg.streams["c"], FbuWire(ids)) /\ FirstUnknown(ids) = 0)
            => /\ result.err = Nil
               /\ result.msg.kind = "FramebufferUpdate"
               /\ Len(result.msg.Rects) = Len(ids)
               /\ \A j \in 1..Len(ids) :
                    /\ result.msg.Rects[j].X = RectGeom(j).X
                    /\ result.msg.Rects[j].Y = RectGeom(j).Y
                    /\ result.msg.Rects[j].Width = RectGeom(j).Width
                    /\ result.msg.Rects[j].Height = RectGeom(j).Height
               /\ Consumed("c") = 3 + 12 * Len(ids)

C5_Witness ==
    /\ Done("FramebufferUpdate")
    /\ result.err = Nil
    /\ Len(result.msg.Rects) >= 2
    /\ result.msg.Rects[1].X # result.msg.Rects[2].X
    /\ Consumed("c") = 3 + 12 * Len(result.msg.Rects)
    /\ Len(streams["c"]) > 0

\* C6: when a rectangle's encoding-type is not in the registry, the decode
\* returns the unsupported-encoding error naming that type and no message, and
\* has read nothing after that rectangle's 12-byte header.
C6_UnsupportedEncoding ==
    Done("FramebufferUpdate") => \A ids \in IdSeqs :
        LET j == FirstUnknown(ids)
        IN  (j > 0
                /\ Len(arg.streams["c"]) >= 3 + 12 * j
                /\ Prefix(arg.streams["c"], 3 + 12 * j) = Prefix(FbuWire(ids), 3 + 12 * j))
                => /\ result.msg = Nil
                   /\ result.err = UnsupportedEncoding(ids[j])
                   /\ Consumed("c") = 3 + 12 * j

C6_Witness ==
    /\ Done("FramebufferUpdate")
    /\ Unsupported(result.err)
    /\ result.err.id = -239
    /\ Len(iolog) = 4
    /\ Len(streams["c"]) > 12

\* C7: whatever the caller configured, a rectangle whose encoding-type is Raw
\* resolves, and it resolves to the built-in Raw decoder.
C7_RawAlwaysBuiltin ==
    Done("FramebufferUpdate") => \A ids \in IdSeqs :
        StartsWith(arg.streams["c"], FbuWire(ids))
            => /\ Unsupported(result.err) => result.err.id # Raw
               /\ result.err = Nil
                    => \A j \in 1..Len(ids) :
                          ids[j] = Raw => result.msg.Rects[j].Enc = NewRawEncoding

C7_Witness ==
    /\ Done("FramebufferUpdate")
    /\ result.err = Nil
    /\ \E k \in 1..Len(encodings) : encodings[k] = UserEncoding(Raw)
    /\ \E j \in 1..Len(result.msg.Rects) : result.msg.Rects[j].Enc = NewRawEncoding

\* C8: after a successful SetColorMapEntries decode with first color f and
\* colors c_0..c_(n-1), f + n - 1 <= 65535, the color map holds c_i at f + i,
\* the keys were written in increasing i, and the message carries f and the
\* same colors in wire order.
C8_ColorMapUpdated ==
    Done("SetColorMapEntries") => \A f \in {10, 65535}, cs \in ColorSeqs :
        (result.err = Nil
            /\ StartsWith(Wire, ScmWire(f, cs)) /\ f + Len(cs) - 1 <= 65535)
            => /\ \A i \in 0..(Len(cs) - 1) :
                    /\ f + i \in DOMAIN colorMap
                    /\ colorMap[f + i] = cs[i + 1]
               /\ cmlog = [i \in 1..Len(cs) |-> f + i - 1]
               /\ result.msg = [kind |-> "SetColorMapEntries", FirstColor |-> f,
                                Colors |-> cs]

C8_Witness ==
    /\ Done("SetColorMapEntries")
    /\ result.err = Nil
    /\ result.msg.FirstColor = 10
    /\ result.msg.Colors = << Color(1, 2, 3), Color(4, 5, 600) >>
    /\ colorMap[10] = Color(1, 2, 3)
    /\ colorMap[11] = Color(4, 5, 600)

\* The color map m after the colors cs were stored from index f on.
Stored(m, f, cs) ==
    LET keys == { (f + i) % 65536 : i \in 0..(Len(cs) - 1) }
        at(k) == CHOOSE i \in 0..(Len(cs) - 1) : (f + i) % 65536 = k
    IN  [k \in DOMAIN m \cup keys |-> IF k \in keys THEN cs[at(k) + 1] ELSE m[k]]
IsPrefix(s, w) == Len(s) <= Len(w) /\ Prefix(w, Len(s)) = s

\* C9: when the stream fails after k colors of a SetColorMapEntries message
\* were read completely, the decode returns an error and no message; the
\* color map holds those k colors and is otherwise as it was before the call:
\* the color whose read failed is not stored.
C9_PartialColorMap ==
    Done("SetColorMapEntries") => \A f \in {10, 65535}, cs \in ColorSeqs :
        (IsPrefix(Wire, ScmWire(f, cs))
            /\ Len(Wire) < Len(ScmWire(f, cs)))
            => /\ result.err # Nil
               /\ result.msg = Nil
               /\ colorMap = IF Len(Wire) < 5 THEN cm0
                             ELSE Stored(cm0, f, SubSeq(cs, 1, (Len(Wire) - 5) \div 6))

C9_Witness ==
    /\ Done("SetColorMapEntries")
    /\ result.err # Nil
    /\ Len(cmlog) = 1
    /\ Len(Reads(iolog)) = 8
    /\ iolog[7].data # << >>
    /\ DOMAIN cm0 # {}
    /\ \E k \in DOMAIN cm0 : k # cmlog[1]

\* C10: a failed or short read of the challenge is the handshake's error and
\* nothing is written; a failed write of the response is the handshake's
\* error; in both cases there was one read and at most one write.
C10_IoErrorsPropagate ==
    (Done("ClientAuthVNC.Handshake") /\ arg.password # << >>)
        => LET have == Len(arg.streams["c"])
           IN  /\ have < vncAuthChallengeSize
                    => /\ result.err = IF arg.end # EOF THEN arg.end
                                       ELSE IF have = 0 THEN EOF ELSE ErrUnexpectedEOF
                       /\ Len(iolog) = 1
                       /\ iolog[1].op = "read"
               /\ (have >= vncAuthChallengeSize /\ arg.wfail)
                    => /\ result.err = BrokenPipe
                       /\ Len(Reads(iolog)) = 1
                       /\ Len(Writes(iolog)) = 1

C10_Witness ==
    /\ Done("ClientAuthVNC.Handshake")
    /\ arg.password # << >>
    /\ result.err = ConnReset
    /\ iolog[1].data # << >>

\* C11: ClientAuthNone.Handshake returns success and has neither read from
\* nor written to the stream, whatever the stream holds and however it ends.
C11_NoneHandshakeNoIO ==
    Done("ClientAuthNone.Handshake")
        => /\ result.err = Nil
           /\ iolog = << >>
           /\ streams = arg.streams

C11_Witness ==
    /\ Done("ClientAuthNone.Handshake")
    /\ result.err = Nil
    /\ arg.end = ConnReset
    /\ Len(arg.streams["c"]) \in 1..(vncAuthChallengeSize - 1)

\* C12: decoding a Bell takes no byte from any stream, succeeds whatever the
\* streams hold, and returns the Bell message, which has no fields.
C12_BellConsumesNothing ==
    Done("Bell")
        => /\ result.err = Nil
           /\ result.msg = [kind |-> "Bell"]
           /\ iolog = << >>
           /\ streams = arg.streams

C12_Witness ==
    /\ Done("Bell")
    /\ result.msg = [kind |-> "Bell"]
    /\ arg.streams[arg.r] = << >>
    /\ arg.end = ConnReset

\* C13: the per-byte bit reversal of the key derivation (in encode, and as
\* reverse in client_auth_vnc.go) moves bit k to bit 7-k, and applied twice it
\* gives the byte back, for each of the 256 byte values.
C13_BitReversalInvolution ==
    op = "reverse"
        => /\ local.n = 1 => (local.key = MirrorBits(local.x) /\ local.rev = MirrorBits(local.x))
           /\ local.n = 2 => (local.key = local.x /\ local.rev = local.x)

C13_Witness ==
    /\ op = "reverse"
    /\ local.n = 2
    /\ local.x = 161
    /\ local.key = 161
    /\ reverseKeyByte(161) = 133

FirstEight(p) == SubSeq(p, 1, Min(8, Len(p)))

\* C14: the derived key has exactly 8 bytes; byte i is the bit reversal of
\* password byte i while the password lasts and 0 after it; bytes after the
\* eighth have no influence: passwords that agree on their first 8 bytes give
\* the same key and the same response to a challenge.
C14_KeyFromFirstEightBytes ==
    (op = "ClientAuthVNC.encode" /\ pc # "enc_call")
        => /\ Len(local.key) = 8
           /\ \A i \in 1..8 :
                local.key[i] = IF i <= Len(arg.password)
                               THEN MirrorBits(arg.password[i]) ELSE 0
           /\ pc = "enc_done"
                => \A p2 \in KeyPasswords :
                      FirstEight(p2) = FirstEight(arg.password)
                          => /\ DeriveKey(p2) = local.key
                             /\ encode(p2, local.c0).c = local.c

C14_Witness ==
    /\ op = "ClientAuthVNC.encode"
    /\ pc = "enc_done"
    /\ Len(arg.password) = 9
    /\ local.c # local.c0
    /\ \E p2 \in KeyPasswords :
          /\ p2 # arg.password
          /\ Len(p2) = 9
          /\ FirstEight(p2) = FirstEight(arg.password)

\* C16: the challenge is encrypted as two separate 8-byte blocks under the one
\* derived key: each half of the response is the encryption of the same half
\* of the challenge and does not depend on the other half, so equal halves
\* give equal halves; client_auth_vnc.go encrypts the same way.
C16_IndependentBlocks ==
    (op = "ClientAuthVNC.encode" /\ pc = "enc_done")
        => LET cipher == [kind |-> "des", key |-> local.key]
               lo(c) == SubSeq(c, 1, 8)
               hi(c) == SubSeq(c, 9, 16)
           IN  /\ local.err = Nil
               /\ Len(local.c) = 16
               /\ lo(local.c) = Encrypt(cipher, lo(local.c0))
               /\ hi(local.c) = Encrypt(cipher, hi(local.c0))
               /\ \A c2 \in EncChallenges :
                    /\ lo(c2) = lo(local.c0) => lo(encode(arg.password, c2).c) = lo(local.c)
                    /\ hi(c2) = hi(local.c0) => hi(encode(arg.password, c2).c) = hi(local.c)
               /\ lo(local.c0) = hi(local.c0) => lo(local.c) = hi(local.c)
               /\ local.legacy = local.c

C16_Witness ==
    /\ op = "ClientAuthVNC.encode"
    /\ pc = "enc_done"
    /\ SubSeq(local.c0, 1, 8) = SubSeq(local.c0, 9, 16)
    /\ SubSeq(local.c, 1, 8) = SubSeq(local.c, 9, 16)
    /\ local.c # local.c0
    /\ \E c2 \in EncChallenges :
          SubSeq(c2, 1, 8) = SubSeq(local.c0, 1, 8) /\ SubSeq(c2, 9, 16) # SubSeq(local.c0, 9, 16)

\* C15: in a SetColorMapEntries decode the color at relative index i is stored
\* at key (firstColor + i) mod 65536: past 65535 the key wraps to 0, 1, ...,
\* and the decode succeeds.
C15_ColorIndexWraps ==
    Done("SetColorMapEntries") => \A f \in {10, 65535}, cs \in ColorSeqs :
        StartsWith(Wire, ScmWire(f, cs))
            => /\ result.err = Nil
               /\ cmlog = [i \in 1..Len(cs) |-> (f + i - 1) % 65536]
               /\ \A i \in 0..(Len(cs) - 1) :
                    /\ (f + i) % 65536 \in DOMAIN colorMap
                    /\ colorMap[(f + i) % 65536] = cs[i + 1]

C15_Witness ==
    /\ Done("SetColorMapEntries")
    /\ result.err = Nil
    /\ result.msg.FirstColor = 65535
    /\ Len(result.msg.Colors) >= 2
    /\ cmlog[1] = 65535
    /\ cmlog[2] = 0
    /\ colorMap[0] = result.msg.Colors[2]

\* C17: the color map changes only in a step of a SetColorMapEntries decode
\* (no step of a FramebufferUpdate, Bell or ServerCutText decode, finished
\* well or not, changes it), and no step removes a key from it.
C17_ColorMapOnlyBySetColorMapEntries ==
    [][ /\ colorMap' # colorMap => (op = "SetColorMapEntries" /\ pc = "scm_loop")
        /\ DOMAIN colorMap \subseteq DOMAIN colorMap' ]_vars

C17_Witness ==
    /\ Done("FramebufferUpdate")
    /\ Unsupported(result.err)
    /\ DOMAIN colorMap # {}
    /\ colorMap = cm0

\* C18: a FramebufferUpdate decode that follows another one resolves the
\* encoding-types against the encoding list as it is now, not against the
\* registry of the decode before: a type no longer in the list (other than
\* Raw) is rejected, a type now in the list is accepted.
C18_RegistryRebuiltPerDecode ==
    (Done("FramebufferUpdate") /\ encMaps.prev # << >>)
        => /\ encMaps.cur = << BuildEncMap(encodings) >>
           /\ \A ids \in IdSeqs :
                StartsWith(arg.streams["c"], FbuWire(ids))
                    => IF FirstUnknown(ids) = 0 THEN result.err = Nil
                       ELSE result.err = UnsupportedEncoding(ids[FirstUnknown(ids)])

C18_Witness ==
    /\ Done("FramebufferUpdate")
    /\ encMaps.prev # << >>
    /\ -239 \in DOMAIN encMaps.prev[1]
    /\ ~Configured(-239)
    /\ Unsupported(result.err)
    /\ result.err.id = -239

\* C19: a decoder that is passed a reader other than the connection's own
\* stream takes no byte from the connection's stream; every read is on the
\* reader it was passed.
C19_DecodersReadOnlyPassedReader ==
    (pc = "done" /\ arg.r = "x"
        /\ op \in {"FramebufferUpdate", "SetColorMapEntries", "Bell", "ServerCutText"})
        => /\ streams["c"] = arg.streams["c"]
           /\ \A k \in 1..Len(iolog) : iolog[k].on = "x"

\* C20: for a non-empty password the Handshake of security.go and the one of
\* client_auth_vnc.go, given the same password and the same bytes, do the same
\* reads and writes (the same 16 response bytes) and return the same error or
\* success.
C20_HandshakesEquivalent ==
    (Done("ClientAuthVNC.Handshake") /\ legacy.pc = "done" /\ arg.password # << >>)
        => /\ legacy.iolog = iolog
           /\ legacy.err = result.err
           /\ legacy.stream = streams["c"]

C20_Witness ==
    /\ Done("ClientAuthVNC.Handshake")
    /\ legacy.pc = "done"
    /\ Len(arg.password) > 8
    /\ result.err = Nil
    /\ Len(Writes(legacy.iolog)) = 1
    /\ Writes(legacy.iolog)[1].data # Prefix(arg.streams["c"], vncAuthChallengeSize)
====
